---- MODULE Spec2Model ----
(***************************************************************************)
(* PineUI Builder, src/server.js: the context resource cache, the version  *)
(* resolver and the bundle resolver.                                       *)
(*                                                                         *)
(* The document cache (getPineUIPrompt) is modelled as the asynchronous    *)
(* function it is: the synchronous prefix up to `await fetchUrl(...)` is    *)
(* one step, the response's 'data' events are steps of their own, and the  *)
(* continuation after the promise settles (lines 150-153 and 166 on        *)
(* resolve, lines 154-166 on reject) is one step, because Node runs it to  *)
(* completion before any other callback.                                    *)
(*                                                                         *)
(* Strings are TLA+ strings; null and "no such file" are the two values    *)
(* Null and NoFile, which no response body can equal.                      *)
(*                                                                         *)
(* Spec is the document cache; SpecVer is the version resolver             *)
(* (getPineUIVersion) together with the bundle resolver it starts          *)
(* (downloadPineUIBundle).  There the registry answer and each of the two  *)
(* bundle answers arrive whole, in one step, with their HTTP status.       *)
(*                                                                         *)
(* In Spec and SpecVer every writeFileSync takes its data.  SpecMirror is  *)
(* Spec with the write of line 152 allowed to throw, at open or after a    *)
(* part of the body; SpecDisk is SpecVer with the writes of lines 133 and  *)
(* 134 allowed to throw in the same two ways.                              *)
(*                                                                         *)
(* SpecRelay is POST /api/generate on top of the document cache: one relay *)
(* session at a time, next to getPineUIPrompt() invocations of other       *)
(* callers (the preload at startup).  Each chunk the provider stream       *)
(* yields is one step of the for-await loop; the process is not restarted. *)
(* A request carries its prompt and its history; the limiter of lines      *)
(* 70-80 stands in front of the handler.  A request whose history is null  *)
(* ends the process at line 190; no step follows the exit.                 *)
(***************************************************************************)
EXTENDS Integers, Sequences, FiniteSets, Bags, TLC

\* ---------------------------------------------------------------- bounds
MaxCalls    == 2        \* invocations that may be in flight at once
MaxBody     == 2        \* 'data' events (chunks) of one response
MaxTicks    == 3        \* clock steps observed
MaxRestarts == 1        \* process restarts observed
MaxChunks   == 2        \* chunks one provider stream yields before it ends

\* ------------------------------------------------------ program constants
CACHE_TTL == 5 * 60 * 1000
windowMs  == 60 * 1000     \* the limiter's window (line 71)
max       == 10            \* requests one window admits (line 72)

Null   == "null"        \* the JavaScript value null
NoFile == "ENOENT"      \* existsSync(PROMPT_FILE) is false
Chunks == {"a"}         \* what one 'data' event may carry
StartTime == 2 * CACHE_TTL       \* Date.now() at process start, far above the TTL
TickMs    == CACHE_TTL \div 3    \* the clock is observed every 100 s

VARIABLES
  clock,            \* Date.now()
  pineUIPrompt,     \* line 84
  pineUIPromptAt,   \* line 85
  promptFile,       \* content of data/PROMPT.md, or NoFile
  calls,            \* the getPineUIPrompt() invocations suspended at line 149
  run,              \* how many times the process was restarted
  source,           \* where the in-memory copy came from: none, remote, disk
  lastFetched,      \* body of the latest fetch that ended (resolve(data)), any run
  last,             \* how the latest getPineUIPrompt() of this process settled
  okStart           \* latest `now` (line 139) of a call of this process whose fetch ended

VARIABLES
  pineUIVersion,    \* line 86
  pineUIVersionAt,  \* line 87
  vcalls,           \* the getPineUIVersion() invocations suspended at line 104
  vlast,            \* how the latest getPineUIVersion() settled
  jsFile,           \* public/pineui/pineui-<version>.js, per version, or NoFile
  cssFile,          \* public/pineui/pineui-<version>.css, per version, or NoFile
  downloads,        \* the downloadPineUIBundle() invocations suspended at line 128
  blast             \* how the latest downloadPineUIBundle() ended

VARIABLES
  session,          \* where the POST /api/generate handler stands
  res,              \* what the handler wrote to its response, in order
  produced,         \* the chunks the provider stream has yielded so far
  connected,        \* the client of the session is still connected
  coldFailed        \* a session of this process failed for want of a document

VARIABLES
  started,          \* the app.listen callback (lines 369-379) has run
  vreq,             \* where the GET /api/pineui-version handler stands
  answer,           \* what that handler answered last
  manifest,         \* data/projects.json as readManifest() parses it
  schemas,          \* public/schemas/<id>.json, per id: its content or NoFile
  reply             \* what a /api/projects handler answered last

VARIABLES
  hits              \* requests to /api/generate the limiter counted in the running window

VARIABLES
  resolvedStart     \* latest `now` (line 100) of a getPineUIVersion() that resolved a version

docVars == <<pineUIPrompt, pineUIPromptAt, promptFile, calls, run, source,
             lastFetched, last, okStart>>
verVars == <<pineUIVersion, pineUIVersionAt, vcalls, vlast>>
bundleVars == <<jsFile, cssFile, downloads, blast>>
relayVars == <<session, res, produced, connected, coldFailed>>
startVars == <<started>>
endpointVars == <<vreq, answer>>
projVars == <<manifest, schemas, reply>>
histVars == <<resolvedStart>>
limitVars == <<hits>>
restVars == <<startVars, endpointVars, projVars>>
nonDocVars == <<verVars, bundleVars, relayVars, restVars, histVars, limitVars>>
nonVerVars == <<relayVars, restVars, histVars, limitVars>>
nonRelayVars == <<verVars, bundleVars, restVars, histVars, limitVars>>
vars == <<clock, docVars, verVars, bundleVars, relayVars, restVars, histVars, limitVars>>

\* JavaScript truthiness of a string-or-null value (lines 142, 155)
Truthy(s) == s # Null /\ s # ""

\* an invocation suspended at the await of line 149 holds the `now` of line
\* 139 and the `data` of line 92; invocations have no identity of their own,
\* so the suspended ones form a bag
Awaiting(now, data) == [now |-> now, data |-> data]
Suspend(c)  == calls (+) SetToBag({c})
Resume(c)   == calls (-) SetToBag({c})
InFlight    == BagCardinality(calls)

\* the settlement of a getPineUIPrompt() promise: the branch taken (cache:
\* line 144; fetch: 150-153; stale: 156; disk: 158-161; fail: the throw of
\* line 163), how its fetch ended, and the value returned at line 144 or 166
NoReturn == [path |-> "none", now |-> 0, fetch |-> "none", ret |-> Null]
Settled(path, now, fetch, ret) == [path |-> path, now |-> now, fetch |-> fetch, ret |-> ret]

\* ----------------------------------------- version and bundle resolvers
Latest   == "latest"               \* line 113, the fallback version
Versions == {"1.0.0", "1.1.0"}     \* versions the registry may publish

\* bodies the registry URL of line 104 may answer with
RegistryBodies ==
  {"{\"version\":\"1.0.0\"}", "{\"version\":\"1.1.0\"}", "{}", "<html>"}

\* JSON.parse(raw).version, line 105: the version field; Null stands for
\* undefined (no such field) and for the SyntaxError thrown on a body that
\* is not JSON, both of which end in the catch block (line 106 throws)
ParseVersion(raw) ==
  CASE raw = "{\"version\":\"1.0.0\"}" -> "1.0.0"
    [] raw = "{\"version\":\"1.1.0\"}" -> "1.1.0"
    [] OTHER -> Null

\* what unpkg may answer to a GET of lines 129-130; fetchUrl resolves with
\* the body whatever the status (lines 91-94 never read res.statusCode)
Responses == {[status |-> 200, body |-> "bundle"],
              [status |-> 404, body |-> "Not Found"]}
Pending   == [status |-> 0, body |-> ""]     \* no answer yet

\* a downloadPineUIBundle(version) suspended at the Promise.all of line 128
Downloading(version, js, css) == [version |-> version, js |-> js, css |-> css]

\* how a getPineUIVersion() returned: from the cache test, the try block or
\* the catch block; whether its fetch resolved; what it returned
NoVersionReturn == [path |-> "none", fetch |-> "none", ret |-> Null]
VSettled(path, fetch, ret) == [path |-> path, fetch |-> fetch, ret |-> ret]
NoBundleStep == [version |-> Null, what |-> "none"]
BundleStep(version, what) == [version |-> version, what |-> what]

\* ------------------------------------------------------- generate relay
\* request bodies: prompt missing, empty, blank, or a text
Prompts == {Null, "", "  ", "login form"}

\* the `history` of the request body (line 176): a list of messages, which
\* the default [] also gives when the field is absent; a list that holds a
\* null where a message should be; or null, for which the default does not
\* apply
Histories == {"list", "[null]", Null}

\* line 190, history.length: a TypeError on null
LengthThrows(history) == history = Null

\* line 218, msg.role for every element: a TypeError on a null element
MapThrows(history) == history = "[null]"
RoleError == "Cannot read properties of null (reading 'role')"

\* String.prototype.trim, line 179
Trim(prompt) ==
  CASE prompt = "  " -> ""
    [] OTHER -> prompt

\* chunks the provider stream yields (line 238): text deltas, and events
\* that carry no text
TextDelta(text) == [type |-> "content_block_delta", delta |-> "text_delta", text |-> text]
Fragments  == {"Here ", "is "}
ChunkKinds == {TextDelta(f) : f \in Fragments} \cup
              {[type |-> "message_start", delta |-> "none", text |-> ""],
               [type |-> "content_block_delta", delta |-> "input_json_delta", text |-> "{"]}

\* what the handler writes to the response: a JSON answer with a status
\* (lines 181, 186) or a `data:` line of the event stream (lines 241, 248, 252)
JsonAnswer(status, error) == [kind |-> "json", status |-> status, payload |-> error]
TextEvent(text)  == [kind |-> "text", status |-> 200, payload |-> text]
DoneEvent        == [kind |-> "done", status |-> 200, payload |-> "[DONE]"]
ErrorEvent(msg)  == [kind |-> "error", status |-> 200, payload |-> msg]

\* positions of the handler: no request, awaiting getPineUIPrompt() (line
\* 194) called at `now` with the request's history still to be mapped (line
\* 218), inside the for-await loop (line 238), ended; or the process has
\* exited on the TypeError of line 190, which is thrown after the
\* validation and before the try of line 193: the promise of the async
\* handler is rejected, nothing handles the rejection and Node ends the
\* process
Idle        == [st |-> "idle", now |-> 0, history |-> "none"]
Exited      == [st |-> "exited", now |-> 0, history |-> "none"]
Context(now, history) == [st |-> "context", now |-> now, history |-> history]
Streaming   == [st |-> "streaming", now |-> 0, history |-> "none"]
Closed      == [st |-> "closed", now |-> 0, history |-> "none"]

\* ------------------------------------------------ version endpoint, projects
\* positions of the GET /api/pineui-version handler: no request, or awaiting
\* the getPineUIVersion() of line 301 that was called at `now`
NoRequest == [st |-> "idle", now |-> 0]
Asking(now) == [st |-> "asking", now |-> now]

\* no answer sent yet
NoAnswer == [status |-> 0, body |-> Null]

\* what a handler of /api/projects answered: the route, the status and the
\* JSON body (lines 269, 296, 316, 322, 326, 333)
Reply(route, status, body) == [route |-> route, status |-> status, body |-> body]
NoReply == Reply("none", 0, Null)

\* project ids: one a request may name (ten lower-case hex digits, line
\* 272) and the content hashes of the two schemas of the model (line 274)
Ids == {"00000000a1", "1348260b3e", "f5276cdb47"}

\* lines 84-87, a data directory without PROMPT.md and the empty manifest of
\* ensureDirs (line 23): a first deployment
Init ==
  /\ clock = StartTime
  /\ pineUIPrompt = Null
  /\ pineUIPromptAt = 0
  /\ promptFile = NoFile
  /\ calls = EmptyBag
  /\ run = 0
  /\ source = "none"
  /\ lastFetched = Null
  /\ last = NoReturn
  /\ okStart = 0
  /\ pineUIVersion = Null
  /\ pineUIVersionAt = 0
  /\ vcalls = EmptyBag
  /\ vlast = NoVersionReturn
  /\ jsFile = [v \in Versions |-> NoFile]
  /\ cssFile = [v \in Versions |-> NoFile]
  /\ downloads = EmptyBag
  /\ blast = NoBundleStep
  /\ session = Idle
  /\ res = <<>>
  /\ produced = <<>>
  /\ connected = FALSE
  /\ coldFailed = FALSE
  /\ hits = 0
  /\ started = FALSE
  /\ vreq = NoRequest
  /\ answer = NoAnswer
  /\ manifest = <<>>
  /\ schemas = [id \in Ids |-> NoFile]
  /\ reply = NoReply
  /\ resolvedStart = 0

\* time passes
Tick ==
  /\ clock < StartTime + MaxTicks * TickMs
  /\ clock' = clock + TickMs
  /\ UNCHANGED <<pineUIPrompt, pineUIPromptAt, promptFile, calls, run, source, lastFetched, last, okStart>>

\* the freshness test of line 142, with the `now` of line 139
Fresh(now) == Truthy(pineUIPrompt) /\ now - pineUIPromptAt < CACHE_TTL

\* getPineUIPrompt, lines 139-149: up to the return of line 144 or the await
GetPineUIPromptStart ==
  /\ InFlight < MaxCalls
  /\ LET now == clock
     IN IF Fresh(now)
        THEN /\ last' = Settled("cache", now, "none", pineUIPrompt)
             /\ UNCHANGED calls
        ELSE /\ calls' = Suspend(Awaiting(now, ""))
             /\ UNCHANGED last
  /\ UNCHANGED <<clock, pineUIPrompt, pineUIPromptAt, promptFile, run, source, lastFetched, okStart>>

\* a slip: the shared variable is used as the accumulator of the response
FetchDataLeaky(c) ==
  /\ Len(c.data) < MaxBody
  /\ \E chunk \in Chunks :
       /\ calls' = Resume(c) (+) SetToBag({Awaiting(c.now, c.data \o chunk)})
       /\ pineUIPrompt' = c.data \o chunk
  /\ UNCHANGED <<clock, pineUIPromptAt, promptFile, run, source, lastFetched, last, okStart>>

\* fetchUrl, line 93: res.on('data', chunk => data += chunk)
FetchData(c) ==
  /\ Len(c.data) < MaxBody
  /\ \E chunk \in Chunks :
       calls' = Resume(c) (+) SetToBag({Awaiting(c.now, c.data \o chunk)})
  /\ UNCHANGED <<clock, pineUIPrompt, pineUIPromptAt, promptFile, run, source, lastFetched, last, okStart>>

\* a slip: line 152 left out
MirrorSkipped(fresh) == promptFile

\* a slip: the file is opened for appending
MirrorAppended(fresh) == IF promptFile = NoFile THEN fresh ELSE promptFile \o fresh

\* line 152, writeFileSync(PROMPT_FILE, fresh, 'utf8'): the file afterwards
MirrorWrite(fresh) == fresh

\* fetchUrl line 94 resolves; getPineUIPrompt lines 150-153, 166
FetchEnd(c) ==
  /\ LET fresh == c.data
         now   == c.now
     IN /\ pineUIPrompt' = fresh
        /\ pineUIPromptAt' = now
        /\ promptFile' = MirrorWrite(fresh)
        /\ source' = "remote"
        /\ lastFetched' = fresh
        /\ last' = Settled("fetch", now, "ok", pineUIPrompt')
  /\ calls' = Resume(c)
  /\ okStart' = IF c.now > okStart THEN c.now ELSE okStart
  /\ UNCHANGED <<clock, run>>

\* slips in the catch block: the mirror file preferred to the copy in
\* memory; no disk tier
TierDiskFirst ==
  IF promptFile # NoFile THEN "disk"
  ELSE IF Truthy(pineUIPrompt) THEN "stale"
  ELSE "fail"
TierNoDisk == IF Truthy(pineUIPrompt) THEN "stale" ELSE "fail"

\* the branch the catch block takes: lines 155, 157, 162
Tier ==
  IF Truthy(pineUIPrompt) THEN "stale"
  ELSE IF promptFile # NoFile THEN "disk"
  ELSE "fail"

\* fetchUrl line 95 rejects; getPineUIPrompt lines 154-166
FetchError(c) ==
  /\ LET now == c.now
     IN CASE Tier = "stale" ->
             /\ last' = Settled("stale", now, "error", pineUIPrompt)
             /\ UNCHANGED <<pineUIPrompt, pineUIPromptAt, source>>
          [] Tier = "disk" ->
             /\ pineUIPrompt' = promptFile
             /\ pineUIPromptAt' = now
             /\ source' = "disk"
             /\ last' = Settled("disk", now, "error", pineUIPrompt')
          [] Tier = "fail" ->
             /\ last' = Settled("fail", now, "error", Null)
             /\ UNCHANGED <<pineUIPrompt, pineUIPromptAt, source>>
  /\ calls' = Resume(c)
  /\ UNCHANGED <<clock, promptFile, run, lastFetched, okStart>>

\* the process ends and starts again: lines 84-87 run anew, the data
\* directory stays (ensureDirs, lines 19-25, creates only what is missing)
Restart ==
  /\ run < MaxRestarts
  /\ run' = run + 1
  /\ pineUIPrompt' = Null
  /\ pineUIPromptAt' = 0
  /\ source' = "none"
  /\ calls' = EmptyBag
  /\ last' = NoReturn
  /\ okStart' = 0
  /\ UNCHANGED <<clock, promptFile, lastFetched>>

Next ==
  \/ Tick /\ UNCHANGED nonDocVars
  \/ GetPineUIPromptStart /\ UNCHANGED nonDocVars
  \/ \E c \in BagToSet(calls) : FetchData(c) /\ UNCHANGED nonDocVars
  \/ \E c \in BagToSet(calls) : FetchEnd(c) /\ UNCHANGED nonDocVars
  \/ \E c \in BagToSet(calls) : FetchError(c) /\ UNCHANGED nonDocVars
  \/ Restart /\ UNCHANGED nonDocVars

Spec == Init /\ [][Next]_vars

\* no existence test: the pair always counts as missing
MissingAlways(version) == TRUE

\* ------------------------------------------------------------------------
\* existsSync of lines 122 (and 304): a file of the pair is missing
Missing(version) == jsFile[version] = NoFile \/ cssFile[version] = NoFile

\* the freshness test of line 101, with the `now` of line 100
VersionFresh(now) == Truthy(pineUIVersion) /\ now - pineUIVersionAt < CACHE_TTL

\* getPineUIVersion, lines 100-104: up to the return of line 101 or the await
GetPineUIVersionStart ==
  /\ BagCardinality(vcalls) + BagCardinality(downloads) < MaxCalls
  /\ LET now == clock
     IN IF VersionFresh(now)
        THEN /\ vlast' = VSettled("cache", "none", pineUIVersion)
             /\ UNCHANGED vcalls
        ELSE /\ vcalls' = vcalls (+) SetToBag({[now |-> now]})
             /\ UNCHANGED vlast
  /\ UNCHANGED <<clock, docVars, pineUIVersion, pineUIVersionAt, bundleVars>>

\* downloadPineUIBundle, lines 119-131, as called at line 110: it runs to
\* its await inside the caller's step; with both files present it returns
\* at line 123, otherwise both GETs are issued
DownloadPineUIBundle(version) ==
  IF ~Missing(version)
  THEN /\ blast' = BundleStep(version, "cached")
       /\ UNCHANGED downloads
  ELSE /\ downloads' = downloads (+) SetToBag({Downloading(version, Pending, Pending)})
       /\ UNCHANGED blast

\* a catch block that always falls back to the sentinel
VersionCatchLatest(c, fetch) ==
  /\ pineUIVersion' = Latest
  /\ vlast' = VSettled("fallback", fetch, pineUIVersion')
  /\ UNCHANGED <<pineUIVersionAt, bundleVars>>

\* a slip: the catch block stamps the time of the failed attempt
VersionCatchStamping(c, fetch) ==
  /\ pineUIVersion' = IF ~Truthy(pineUIVersion) THEN Latest ELSE pineUIVersion
  /\ pineUIVersionAt' = c.now
  /\ vlast' = VSettled("fallback", fetch, pineUIVersion')
  /\ UNCHANGED bundleVars

\* getPineUIVersion, lines 111-115: the catch block and the return
VersionCatch(c, fetch) ==
  /\ pineUIVersion' = IF ~Truthy(pineUIVersion) THEN Latest ELSE pineUIVersion
  /\ vlast' = VSettled("fallback", fetch, pineUIVersion')
  /\ UNCHANGED <<pineUIVersionAt, bundleVars>>

\* a resolver that stamps the time of every answer, usable or not
VersionFetchEndStamping(c, raw) ==
  /\ LET version == ParseVersion(raw)
     IN IF Truthy(version)
        THEN /\ pineUIVersion' = version
             /\ pineUIVersionAt' = c.now
             /\ DownloadPineUIBundle(version)
             /\ vlast' = VSettled("resolved", "ok", pineUIVersion')
             /\ UNCHANGED <<jsFile, cssFile>>
        ELSE /\ pineUIVersion' = IF ~Truthy(pineUIVersion) THEN Latest ELSE pineUIVersion
             /\ pineUIVersionAt' = c.now
             /\ vlast' = VSettled("fallback", "ok", pineUIVersion')
             /\ UNCHANGED bundleVars
  /\ vcalls' = vcalls (-) SetToBag({c})
  /\ UNCHANGED <<clock, docVars>>

\* a slip: the bundle is fetched only for the first version ever stored
VersionFetchEndFirstOnly(c, raw) ==
  /\ LET version == ParseVersion(raw)
     IN IF Truthy(version)
        THEN /\ pineUIVersion' = version
             /\ pineUIVersionAt' = c.now
             /\ IF pineUIVersion \in Versions
                THEN UNCHANGED <<downloads, blast>>
                ELSE DownloadPineUIBundle(version)
             /\ vlast' = VSettled("resolved", "ok", pineUIVersion')
             /\ UNCHANGED <<jsFile, cssFile>>
        ELSE VersionCatch(c, "ok")
  /\ vcalls' = vcalls (-) SetToBag({c})
  /\ UNCHANGED <<clock, docVars>>

\* fetchUrl resolves with raw; getPineUIVersion lines 105-110, 115, or the
\* catch block when line 105 or 106 throws
VersionFetchEnd(c, raw) ==
  /\ LET version == ParseVersion(raw)
     IN IF Truthy(version)
        THEN /\ pineUIVersion' = version
             /\ pineUIVersionAt' = c.now
             /\ DownloadPineUIBundle(version)
             /\ vlast' = VSettled("resolved", "ok", pineUIVersion')
             /\ UNCHANGED <<jsFile, cssFile>>
        ELSE VersionCatch(c, "ok")
  /\ vcalls' = vcalls (-) SetToBag({c})
  /\ UNCHANGED <<clock, docVars>>

\* fetchUrl rejects (line 95); getPineUIVersion lines 111-115
VersionFetchError(c) ==
  /\ VersionCatch(c, "error")
  /\ vcalls' = vcalls (-) SetToBag({c})
  /\ UNCHANGED <<clock, docVars>>

\* a resolver that keeps one unversioned pair of files
BundleFetchEndShared(d, which, resp) ==
  /\ d[which] = Pending
  /\ LET got == [d EXCEPT ![which] = resp]
     IN IF got.js # Pending /\ got.css # Pending
        THEN /\ jsFile' = [v \in Versions |-> got.js.body]
             /\ cssFile' = [v \in Versions |-> got.css.body]
             /\ downloads' = downloads (-) SetToBag({d})
             /\ blast' = BundleStep(d.version, "written")
        ELSE /\ downloads' = (downloads (-) SetToBag({d})) (+) SetToBag({got})
             /\ UNCHANGED <<jsFile, cssFile, blast>>
  /\ UNCHANGED <<clock, docVars, verVars>>

\* one GET of line 129 or 130 resolved with the answer resp; when it is the
\* second of the two, Promise.all resolves and lines 133-135 write the pair
BundleFetchEnd(d, which, resp) ==
  /\ d[which] = Pending
  /\ LET got == [d EXCEPT ![which] = resp]
     IN IF got.js # Pending /\ got.css # Pending
        THEN /\ jsFile' = [jsFile EXCEPT ![d.version] = got.js.body]
             /\ cssFile' = [cssFile EXCEPT ![d.version] = got.css.body]
             /\ downloads' = downloads (-) SetToBag({d})
             /\ blast' = BundleStep(d.version, "written")
        ELSE /\ downloads' = (downloads (-) SetToBag({d})) (+) SetToBag({got})
             /\ UNCHANGED <<jsFile, cssFile, blast>>
  /\ UNCHANGED <<clock, docVars, verVars>>

\* where the writes of lines 133-134 can stop: writeFileSync of the js file
\* fails at its open (both files as they were) or at a write after the
\* truncating open (the js file holds a beginning of its body), or the js
\* file is written and writeFileSync of the css file fails in one of the
\* two ways
WriteStops == {"js open", "js write", "css open", "css write"}

\* the beginnings of a body that a failed write can leave in the file
Beginnings(body) ==
  {""} \cup (CASE body = "bundle"    -> {"bun"}
              [] body = "Not Found" -> {"Not "}
              [] OTHER              -> {})

BundleParts == UNION {Beginnings(resp.body) : resp \in Responses}

\* the last answer of a download arrives and Promise.all resolves (line
\* 128), then writeFileSync throws at line 133 or at line 134: the promise
\* of downloadPineUIBundle rejects, which line 110 logs
BundleWriteFails(d, which, resp, stop, part) ==
  /\ d[which] = Pending
  /\ LET got == [d EXCEPT ![which] = resp]
         v   == d.version
     IN /\ got.js # Pending /\ got.css # Pending
        /\ CASE stop = "js open" ->
                  /\ part = ""
                  /\ UNCHANGED <<jsFile, cssFile>>
             [] stop = "js write" ->
                  /\ part \in Beginnings(got.js.body)
                  /\ jsFile' = [jsFile EXCEPT ![v] = part]
                  /\ UNCHANGED cssFile
             [] stop = "css open" ->
                  /\ part = ""
                  /\ jsFile' = [jsFile EXCEPT ![v] = got.js.body]
                  /\ UNCHANGED cssFile
             [] stop = "css write" ->
                  /\ part \in Beginnings(got.css.body)
                  /\ jsFile' = [jsFile EXCEPT ![v] = got.js.body]
                  /\ cssFile' = [cssFile EXCEPT ![v] = part]
  /\ downloads' = downloads (-) SetToBag({d})
  /\ blast' = BundleStep(d.version, "failed")
  /\ UNCHANGED <<clock, docVars, verVars>>

\* a failed download that invalidates the resolved version
BundleFetchErrorInvalidating(d, which) ==
  /\ d[which] = Pending
  /\ downloads' = downloads (-) SetToBag({d})
  /\ blast' = BundleStep(d.version, "failed")
  /\ pineUIVersionAt' = 0
  /\ UNCHANGED <<clock, docVars, pineUIVersion, vcalls, vlast, jsFile, cssFile>>

\* one GET of line 129 or 130 rejected: Promise.all rejects, lines 133-135
\* are skipped and the catch of line 110 logs the warning
BundleFetchError(d, which) ==
  /\ d[which] = Pending
  /\ downloads' = downloads (-) SetToBag({d})
  /\ blast' = BundleStep(d.version, "failed")
  /\ UNCHANGED <<clock, docVars, verVars, jsFile, cssFile>>

VerNext ==
  \/ Tick /\ UNCHANGED nonDocVars
  \/ GetPineUIVersionStart /\ UNCHANGED nonVerVars
  \/ \E c \in BagToSet(vcalls), raw \in RegistryBodies :
        VersionFetchEnd(c, raw) /\ UNCHANGED nonVerVars
  \/ \E c \in BagToSet(vcalls) : VersionFetchError(c) /\ UNCHANGED nonVerVars
  \/ \E d \in BagToSet(downloads), which \in {"js", "css"}, resp \in Responses :
        BundleFetchEnd(d, which, resp) /\ UNCHANGED nonVerVars
  \/ \E d \in BagToSet(downloads), which \in {"js", "css"} :
        BundleFetchError(d, which) /\ UNCHANGED nonVerVars

SpecVer == Init /\ [][VerNext]_vars

\* the resolvers when the bundle directory may fail to take a file
DiskNext ==
  \/ Tick /\ UNCHANGED nonDocVars
  \/ GetPineUIVersionStart /\ UNCHANGED nonVerVars
  \/ \E c \in BagToSet(vcalls), raw \in RegistryBodies :
        VersionFetchEnd(c, raw) /\ UNCHANGED nonVerVars
  \/ \E c \in BagToSet(vcalls) : VersionFetchError(c) /\ UNCHANGED nonVerVars
  \/ \E d \in BagToSet(downloads), which \in {"js", "css"}, resp \in Responses :
        BundleFetchEnd(d, which, resp) /\ UNCHANGED nonVerVars
  \/ \E d \in BagToSet(downloads), which \in {"js", "css"} :
        BundleFetchError(d, which) /\ UNCHANGED nonVerVars
  \/ \E d \in BagToSet(downloads), which \in {"js", "css"}, resp \in Responses,
        stop \in WriteStops, part \in BundleParts :
        BundleWriteFails(d, which, resp, stop, part) /\ UNCHANGED nonVerVars

SpecDisk == Init /\ [][DiskNext]_vars

\* ------------------------------------------------------------------------
\* POST /api/generate

\* a test of the prompt that does not trim it
EmptyPromptUntrimmed(prompt) == prompt = Null \/ ~Truthy(prompt)

\* the test of line 179: !prompt?.trim()
EmptyPrompt(prompt) == prompt = Null \/ ~Truthy(Trim(prompt))

\* the getPineUIPrompt() invocations suspended since `now`
Waiting(now) ==
  LET S == {c \in BagToSet(calls) : c.now = now}
  IN BagCardinality([c \in S |-> CopiesIn(c, calls)])

\* the invocation c may be the one the session awaits at line 194, resp. one
\* of another caller
SessionCall(c) == session.st = "context" /\ c.now = session.now
OtherCall(c)   == ~SessionCall(c) \/ Waiting(c.now) > 1

\* the limiter of lines 70-80, which stands before the handler on line 175:
\* it counts the requests of the window (one client address; the window
\* itself is kept by express-rate-limit) and admits the first `max` of them.
\* Every count above `max` is answered alike, so the count stops at max + 1
Counted == IF hits > max THEN hits ELSE hits + 1
Limited == Counted > max
TooManyRequests == "Too many requests. Please wait a moment before trying again."

\* the process ends on the unhandled rejection: what it held in memory
\* (lines 84-85, the suspended calls, the limiter's count) is gone, the data
\* directory stays
ProcessExit ==
  /\ pineUIPrompt' = Null
  /\ pineUIPromptAt' = 0
  /\ source' = "none"
  /\ calls' = EmptyBag
  /\ last' = NoReturn
  /\ okStart' = 0
  /\ hits' = 0
  /\ UNCHANGED <<clock, promptFile, run, lastFetched>>

\* lines 195-236, once getPineUIPrompt() has returned: line 218 throws on a
\* null element of the history, the catch of line 250 writes the error
\* event and ends the response (lines 252-253); otherwise the provider
\* stream is opened (line 231) and the handler enters the loop of line 238.
\* Nothing has been written to the response before; open tells whether the
\* client still holds the connection
Compose(history, open) ==
  IF MapThrows(history)
  THEN /\ res' = <<ErrorEvent(RoleError)>>
       /\ session' = Closed
       /\ connected' = FALSE
  ELSE /\ res' = <<>>
       /\ session' = Streaming
       /\ connected' = open

\* lines 175-236: the request arrives; the limiter answers it with 429
\* (lines 74-78) and the handler does not run, or the handler answers it at
\* once (lines 181, 186), or throws at line 190 on a null history, which
\* ends the process, or calls getPineUIPrompt(), which returns the fresh
\* copy (the handler then runs on from line 195) or suspends at its fetch
GenerateRequest(prompt, key, history) ==
  /\ session.st \in {"idle", "closed"}
  /\ produced' = <<>>
  /\ IF Limited
     THEN /\ res' = <<JsonAnswer(429, TooManyRequests)>>
          /\ session' = Closed
          /\ connected' = FALSE
          /\ hits' = Counted
          /\ UNCHANGED <<clock, docVars, coldFailed>>
     ELSE IF EmptyPrompt(prompt)
     THEN /\ res' = <<JsonAnswer(400, "Prompt is required")>>
          /\ session' = Closed
          /\ connected' = FALSE
          /\ hits' = Counted
          /\ UNCHANGED <<clock, docVars, coldFailed>>
     ELSE IF ~key
     THEN /\ res' = <<JsonAnswer(500, "ANTHROPIC_API_KEY not configured")>>
          /\ session' = Closed
          /\ connected' = FALSE
          /\ hits' = Counted
          /\ UNCHANGED <<clock, docVars, coldFailed>>
     ELSE IF LengthThrows(history)
     THEN /\ ProcessExit
          /\ res' = <<>>
          /\ session' = Exited
          /\ connected' = FALSE
          /\ coldFailed' = FALSE
     ELSE /\ GetPineUIPromptStart
          /\ hits' = Counted
          /\ UNCHANGED coldFailed
          /\ IF Fresh(clock)
             THEN Compose(history, TRUE)
             ELSE /\ res' = <<>>
                  /\ session' = Context(clock, history)
                  /\ connected' = TRUE

\* the fetch of the session's getPineUIPrompt() ended: lines 150-153, then
\* the handler runs on from line 195
GenerateFetchEnd(c) ==
  /\ SessionCall(c)
  /\ FetchEnd(c)
  /\ Compose(session.history, connected)
  /\ UNCHANGED <<produced, coldFailed>>

\* a handler that opens the provider stream without a document, resp. that
\* never answers when no document is available
GenerateFetchErrorStreaming(c) ==
  /\ SessionCall(c)
  /\ FetchError(c)
  /\ Compose(session.history, connected)
  /\ UNCHANGED <<produced, coldFailed>>
GenerateFetchErrorHanging(c) ==
  /\ SessionCall(c)
  /\ FetchError(c)
  /\ IF Tier = "fail"
     THEN /\ coldFailed' = TRUE
          /\ UNCHANGED <<session, res, connected>>
     ELSE /\ Compose(session.history, connected)
          /\ UNCHANGED coldFailed
  /\ UNCHANGED produced

\* the fetch of the session's getPineUIPrompt() failed: lines 154-166; with
\* a copy in memory or on disk the handler runs on from line 195, otherwise
\* the error is caught at line 250 and lines 252-253 end the response
GenerateFetchError(c) ==
  /\ SessionCall(c)
  /\ FetchError(c)
  /\ IF Tier = "fail"
     THEN /\ res' = Append(res, ErrorEvent("fetch failed"))
          /\ session' = Closed
          /\ connected' = FALSE
          /\ coldFailed' = TRUE
     ELSE /\ Compose(session.history, connected)
          /\ UNCHANGED coldFailed
  /\ UNCHANGED produced

\* a loop that puts the newest fragment first
ProviderChunkNewestFirst(chunk) ==
  /\ session.st = "streaming"
  /\ Len(produced) < MaxChunks
  /\ produced' = Append(produced, chunk)
  /\ res' = IF chunk.type = "content_block_delta" /\ chunk.delta = "text_delta"
            THEN <<TextEvent(chunk.text)>> \o res
            ELSE res
  /\ UNCHANGED <<clock, docVars, session, connected, coldFailed>>

\* a loop that forwards every content_block_delta, whatever its delta type
ProviderChunkAnyDelta(chunk) ==
  /\ session.st = "streaming"
  /\ Len(produced) < MaxChunks
  /\ produced' = Append(produced, chunk)
  /\ res' = IF chunk.type = "content_block_delta"
            THEN Append(res, TextEvent(chunk.text))
            ELSE res
  /\ UNCHANGED <<clock, docVars, session, connected, coldFailed>>

\* one iteration of the loop of lines 238-243
ProviderChunk(chunk) ==
  /\ session.st = "streaming"
  /\ Len(produced) < MaxChunks
  /\ produced' = Append(produced, chunk)
  /\ res' = IF chunk.type = "content_block_delta" /\ chunk.delta = "text_delta"
            THEN Append(res, TextEvent(chunk.text))
            ELSE res
  /\ UNCHANGED <<clock, docVars, session, connected, coldFailed>>

\* the provider stream ended: lines 245-249
ProviderEnd ==
  /\ session.st = "streaming"
  /\ res' = Append(res, DoneEvent)
  /\ session' = Closed
  /\ connected' = FALSE
  /\ UNCHANGED <<clock, docVars, produced, coldFailed>>

\* a catch block that also writes the end marker
ProviderErrorThenDone ==
  /\ session.st = "streaming"
  /\ res' = res \o <<ErrorEvent("provider error"), DoneEvent>>
  /\ session' = Closed
  /\ connected' = FALSE
  /\ UNCHANGED <<clock, docVars, produced, coldFailed>>

\* the provider stream threw (at line 231 or in the loop): lines 250-254
ProviderError ==
  /\ session.st = "streaming"
  /\ res' = Append(res, ErrorEvent("provider error"))
  /\ session' = Closed
  /\ connected' = FALSE
  /\ UNCHANGED <<clock, docVars, produced, coldFailed>>

\* the client closes the connection; the handler registers no listener
\* for it
ClientDisconnect ==
  /\ session.st \in {"context", "streaming"}
  /\ connected
  /\ connected' = FALSE
  /\ UNCHANGED <<clock, docVars, session, res, produced, coldFailed>>

\* time passes: a whole time-to-live at once, over which the limiter's
\* window ends and its count starts anew
RelayTick ==
  /\ clock + CACHE_TTL <= StartTime + MaxTicks * TickMs
  /\ clock' = clock + CACHE_TTL
  /\ hits' = IF CACHE_TTL >= windowMs THEN 0 ELSE hits
  /\ UNCHANGED docVars

\* the process runs: it has not exited at line 190
Running == session.st # "exited"

RelayNext ==
  \/ Running /\ RelayTick /\ UNCHANGED <<verVars, bundleVars, relayVars, restVars, histVars>>
  \/ \E prompt \in Prompts, key \in BOOLEAN, history \in Histories :
        GenerateRequest(prompt, key, history) /\ UNCHANGED <<verVars, bundleVars, restVars, histVars>>
  \/ Running /\ InFlight < MaxCalls - 1 /\ GetPineUIPromptStart /\ UNCHANGED nonDocVars
  \/ \E c \in BagToSet(calls) : FetchData(c) /\ UNCHANGED nonDocVars
  \/ \E c \in BagToSet(calls) : OtherCall(c) /\ FetchEnd(c) /\ UNCHANGED nonDocVars
  \/ \E c \in BagToSet(calls) : OtherCall(c) /\ FetchError(c) /\ UNCHANGED nonDocVars
  \/ \E c \in BagToSet(calls) : GenerateFetchEnd(c) /\ UNCHANGED nonRelayVars
  \/ \E c \in BagToSet(calls) : GenerateFetchError(c) /\ UNCHANGED nonRelayVars
  \/ \E chunk \in ChunkKinds : ProviderChunk(chunk) /\ UNCHANGED nonRelayVars
  \/ ProviderEnd /\ UNCHANGED nonRelayVars
  \/ ProviderError /\ UNCHANGED nonRelayVars
  \/ ClientDisconnect /\ UNCHANGED nonRelayVars

SpecRelay == Init /\ [][RelayNext]_vars

\* ------------------------------------------------------------------------
\* startup, with every source reachable

\* a slip: the callback preloads the document only
ListenPromptOnly ==
  /\ ~started
  /\ started' = TRUE
  /\ GetPineUIPromptStart
  /\ UNCHANGED <<verVars, bundleVars, relayVars, endpointVars, projVars, histVars, limitVars>>

\* the app.listen callback, lines 369-379: getPineUIPrompt() and
\* getPineUIVersion() are called one after the other and neither is awaited,
\* so both run to their first await (lines 139-149 and 100-104) in this step
Listen ==
  /\ ~started
  /\ started' = TRUE
  /\ GetPineUIPromptStart
  /\ LET now == clock
     IN IF VersionFresh(now)
        THEN /\ vlast' = VSettled("cache", "none", pineUIVersion)
             /\ UNCHANGED vcalls
        ELSE /\ vcalls' = vcalls (+) SetToBag({[now |-> now]})
             /\ UNCHANGED vlast
  /\ UNCHANGED <<pineUIVersion, pineUIVersionAt, bundleVars, relayVars, endpointVars, projVars, histVars, limitVars>>

\* what reachable sources answer: the registry a published version (line
\* 104), unpkg the two files (lines 129-130), and raw.githubusercontent.com
\* a document that is not empty (line 149)
VersionBodies == {raw \in RegistryBodies : ParseVersion(raw) \in Versions}
Served        == {resp \in Responses : resp.status = 200}
DocumentServed(c) == c.data # ""

\* the response of a reachable document source advances or ends
DocumentStep ==
  \E c \in BagToSet(calls) : FetchData(c) \/ (DocumentServed(c) /\ FetchEnd(c))

RegistryStep ==
  \E c \in BagToSet(vcalls), raw \in VersionBodies : VersionFetchEnd(c, raw)

BundleStepDone ==
  \E d \in BagToSet(downloads), which \in {"js", "css"}, resp \in Served :
     BundleFetchEnd(d, which, resp)

\* the startup sequence: the callback and the answers to its requests
StartNext ==
  \/ Tick /\ UNCHANGED nonDocVars
  \/ Listen
  \/ \E c \in BagToSet(calls) : FetchData(c) /\ UNCHANGED nonDocVars
  \/ \E c \in BagToSet(calls) : DocumentServed(c) /\ FetchEnd(c) /\ UNCHANGED nonDocVars
  \/ RegistryStep /\ UNCHANGED nonVerVars
  \/ BundleStepDone /\ UNCHANGED nonVerVars

\* the event loop runs the listen callback once the port is bound, and a
\* request to a reachable source is answered: each kind of step is taken
\* if it stays possible
SpecStart ==
  /\ Init
  /\ [][StartNext]_vars
  /\ WF_vars(Listen)
  /\ WF_vars(DocumentStep /\ UNCHANGED nonDocVars)
  /\ WF_vars(RegistryStep /\ UNCHANGED nonVerVars)
  /\ WF_vars(BundleStepDone /\ UNCHANGED nonVerVars)

\* ------------------------------------------------------------------------
\* GET /api/pineui-version

\* lines 302-304: both files of the version exist; no file is ever written
\* for the sentinel, line 110 passes on registry versions only
Local(version) == version \in Versions /\ ~Missing(version)

\* the locations of lines 307-308
LocalJs(version)   == "/pineui/pineui-" \o version \o ".js"
LocalCss(version)  == "/pineui/pineui-" \o version \o ".css"
RemoteJs(version)  == "https://unpkg.com/@pineui/react@" \o version \o "/dist/pineui.standalone.js"
RemoteCss(version) == "https://unpkg.com/@pineui/react@" \o version \o "/dist/style.css"

\* a slip: the local paths are answered without looking at the files
VersionAnswerAlwaysLocal(version) ==
  [status |-> 200,
   body |-> [version |-> version, js |-> LocalJs(version), css |-> LocalCss(version)]]

\* res.json of lines 305-309, for the version line 301 obtained
VersionAnswer(version) ==
  LET local == Local(version)
  IN [status |-> 200,
      body |-> [version |-> version,
                js  |-> IF local THEN LocalJs(version) ELSE RemoteJs(version),
                css |-> IF local THEN LocalCss(version) ELSE RemoteCss(version)]]

\* the handler up to the await of line 301: getPineUIVersion() either
\* returns from its cache (line 101), and lines 302-309 follow at once, or is
\* suspended at line 104
VersionRequest ==
  /\ vreq.st = "idle"
  /\ GetPineUIVersionStart
  /\ IF VersionFresh(clock)
     THEN /\ answer' = VersionAnswer(pineUIVersion)
          /\ UNCHANGED vreq
     ELSE /\ vreq' = Asking(clock)
          /\ UNCHANGED answer

\* of the calls suspended since `now`, the one line 301 awaits is any
AskedCall(c) == vreq.st = "asking" /\ c.now = vreq.now
AskedAt(now) ==
  LET S == {c \in BagToSet(vcalls) : c.now = now}
  IN BagCardinality([c \in S |-> CopiesIn(c, vcalls)])
UnaskedCall(c) == ~AskedCall(c) \/ AskedAt(c.now) > 1

\* the awaited call returns through line 115 after its fetch resolved; lines
\* 302-309 run before anything else can touch the files
VersionRequestFetchEnd(c, raw) ==
  /\ AskedCall(c)
  /\ VersionFetchEnd(c, raw)
  /\ answer' = VersionAnswer(pineUIVersion')
  /\ vreq' = NoRequest

\* the same after its fetch was rejected
VersionRequestFetchError(c) ==
  /\ AskedCall(c)
  /\ VersionFetchError(c)
  /\ answer' = VersionAnswer(pineUIVersion')
  /\ vreq' = NoRequest

\* the endpoint, the call of the listen callback (line 375) and the
\* downloads they start; getPineUIVersion never throws, so line 311 is not
\* reached
EndpointNext ==
  \/ RelayTick /\ UNCHANGED <<verVars, bundleVars, relayVars, restVars, histVars>>
  \/ VersionRequest /\ UNCHANGED <<relayVars, startVars, projVars, histVars, limitVars>>
  \/ GetPineUIVersionStart /\ UNCHANGED nonVerVars
  \/ \E c \in BagToSet(vcalls), raw \in RegistryBodies :
        VersionRequestFetchEnd(c, raw) /\ UNCHANGED <<relayVars, startVars, projVars, histVars, limitVars>>
  \/ \E c \in BagToSet(vcalls) :
        VersionRequestFetchError(c) /\ UNCHANGED <<relayVars, startVars, projVars, histVars, limitVars>>
  \/ \E c \in BagToSet(vcalls), raw \in RegistryBodies :
        UnaskedCall(c) /\ VersionFetchEnd(c, raw) /\ UNCHANGED nonVerVars
  \/ \E c \in BagToSet(vcalls) :
        UnaskedCall(c) /\ VersionFetchError(c) /\ UNCHANGED nonVerVars
  \/ \E d \in BagToSet(downloads), which \in {"js", "css"}, resp \in Responses :
        BundleFetchEnd(d, which, resp) /\ UNCHANGED nonVerVars
  \/ \E d \in BagToSet(downloads), which \in {"js", "css"} :
        BundleFetchError(d, which) /\ UNCHANGED nonVerVars

SpecEndpoint == Init /\ [][EndpointNext]_vars

\* ------------------------------------------------------------------------
\* /api/projects

\* request bodies: `schema` by its typeof and its JSON text; it may be
\* absent, null, a string or an object
NoSchema   == [type |-> "undefined", json |-> ""]
NullSchema == [type |-> "object", json |-> "null"]
TextSchema == [type |-> "string", json |-> "\"home\""]
HomeSchema == [type |-> "object", json |-> "{\"screen\":\"home\"}"]
CartSchema == [type |-> "object", json |-> "{\"screen\":\"cart\"}"]
SchemaInputs == {NoSchema, NullSchema, TextSchema, HomeSchema, CartSchema}

\* `!schema`, line 268
Falsy(schema) == schema.type = "undefined" \/ schema.json = "null" \/ schema.json = "\"\""

\* sha256 of JSON.stringify(schema), first ten hex digits: line 274
Sha10(schema) ==
  CASE schema = HomeSchema -> "1348260b3e"
    [] schema = CartSchema -> "f5276cdb47"

\* JSON.stringify(schema, null, 2), line 277
Pretty(schema) ==
  CASE schema = HomeSchema -> "{\n  \"screen\": \"home\"\n}"
    [] schema = CartSchema -> "{\n  \"screen\": \"cart\"\n}"

\* the texts of `name` and `prompt`; LongName has 81 characters
LongName == "Shop with a catalogue, a cart, a checkout, an order history and a wishlist page!!"
Names       == {Null, LongName}
PromptTexts == {Null, "a shop"}

\* String.prototype.slice(0, n), lines 284-285: every other text of the
\* model is shorter than 80 characters
Slice(s, n) ==
  IF s = LongName /\ n = 80
  THEN "Shop with a catalogue, a cart, a checkout, an order history and a wishlist page!"
  ELSE s

\* `id` values a request may carry: absent, a session id, a text the test
\* of line 272 refuses
RequestedIds == {Null, "00000000a1", "../secret"}

\* /^[a-f0-9]{10}$/.test(id), lines 272 and 321, on the ids of the model
Hex10(id) == id \in Ids

\* new Date().toISOString(), lines 286-287
ToISOString(ms) == [iso |-> ms]

\* projects.findIndex(p => p.id === id), lines 281 and 325, counting from 1:
\* 0 stands for the -1 of JavaScript
FindIndex(projects, id) ==
  IF \E i \in 1..Len(projects) : projects[i].id = id
  THEN CHOOSE i \in 1..Len(projects) :
         /\ projects[i].id = id
         /\ \A j \in 1..(i - 1) : projects[j].id # id
  ELSE 0

\* a slip: the saved entry always goes to the front
PostProjectAlwaysFront(schema, name, prompt, requestedId) ==
  /\ IF Falsy(schema) \/ schema.type # "object"
     THEN /\ reply' = Reply("POST /api/projects", 400, [error |-> "Invalid schema"])
          /\ UNCHANGED <<manifest, schemas>>
     ELSE LET id == IF Truthy(requestedId) /\ Hex10(requestedId)
                    THEN requestedId
                    ELSE Sha10(schema)
              projects == manifest
              existing == FindIndex(projects, id)
              entry == [id |-> id,
                        name |-> Slice(IF Truthy(name) THEN name
                                       ELSE IF Truthy(prompt) THEN prompt
                                       ELSE "Untitled", 80),
                        prompt |-> Slice(IF Truthy(prompt) THEN prompt ELSE "", 200),
                        createdAt |-> ToISOString(clock),
                        updatedAt |-> ToISOString(clock),
                        url |-> "/schemas/" \o id \o ".json"]
          IN /\ schemas' = [schemas EXCEPT ![id] = Pretty(schema)]
             /\ manifest' = <<entry>> \o SelectSeq(projects, LAMBDA p : p.id # id)
             /\ reply' = Reply("POST /api/projects", 200, entry)
  /\ UNCHANGED <<clock, docVars, verVars, bundleVars, relayVars, startVars, endpointVars, histVars, limitVars>>

\* a slip: no look-up of the id, every save adds an entry
PostProjectAlwaysUnshift(schema, name, prompt, requestedId) ==
  /\ IF Falsy(schema) \/ schema.type # "object"
     THEN /\ reply' = Reply("POST /api/projects", 400, [error |-> "Invalid schema"])
          /\ UNCHANGED <<manifest, schemas>>
     ELSE LET id == IF Truthy(requestedId) /\ Hex10(requestedId)
                    THEN requestedId
                    ELSE Sha10(schema)
              projects == manifest
              entry == [id |-> id,
                        name |-> Slice(IF Truthy(name) THEN name
                                       ELSE IF Truthy(prompt) THEN prompt
                                       ELSE "Untitled", 80),
                        prompt |-> Slice(IF Truthy(prompt) THEN prompt ELSE "", 200),
                        createdAt |-> ToISOString(clock),
                        updatedAt |-> ToISOString(clock),
                        url |-> "/schemas/" \o id \o ".json"]
          IN /\ schemas' = [schemas EXCEPT ![id] = Pretty(schema)]
             /\ manifest' = <<entry>> \o projects
             /\ reply' = Reply("POST /api/projects", 200, entry)
  /\ UNCHANGED <<clock, docVars, verVars, bundleVars, relayVars, startVars, endpointVars, histVars, limitVars>>

\* POST /api/projects, lines 266-297
PostProject(schema, name, prompt, requestedId) ==
  /\ IF Falsy(schema) \/ schema.type # "object"
     THEN /\ reply' = Reply("POST /api/projects", 400, [error |-> "Invalid schema"])
          /\ UNCHANGED <<manifest, schemas>>
     ELSE LET id == IF Truthy(requestedId) /\ Hex10(requestedId)
                    THEN requestedId
                    ELSE Sha10(schema)
              projects == manifest
              existing == FindIndex(projects, id)
              entry == [id |-> id,
                        name |-> Slice(IF Truthy(name) THEN name
                                       ELSE IF Truthy(prompt) THEN prompt
                                       ELSE "Untitled", 80),
                        prompt |-> Slice(IF Truthy(prompt) THEN prompt ELSE "", 200),
                        createdAt |-> IF existing >= 1
                                      THEN projects[existing].createdAt
                                      ELSE ToISOString(clock),
                        updatedAt |-> ToISOString(clock),
                        url |-> "/schemas/" \o id \o ".json"]
          IN /\ schemas' = [schemas EXCEPT ![id] = Pretty(schema)]
             /\ manifest' = IF existing >= 1
                            THEN [projects EXCEPT ![existing] = entry]
                            ELSE <<entry>> \o projects
             /\ reply' = Reply("POST /api/projects", 200, entry)
  /\ UNCHANGED <<clock, docVars, verVars, bundleVars, relayVars, startVars, endpointVars, histVars, limitVars>>

\* GET /api/projects, lines 315-317
GetProjects ==
  /\ reply' = Reply("GET /api/projects", 200, manifest)
  /\ UNCHANGED <<clock, docVars, verVars, bundleVars, relayVars, startVars, endpointVars, histVars, limitVars, manifest, schemas>>

\* a slip: the schema file is left behind
DeleteProjectKeepsFile(id) ==
  /\ IF ~Hex10(id)
     THEN /\ reply' = Reply("DELETE /api/projects/:id", 400, [error |-> "Invalid project id"])
          /\ UNCHANGED <<manifest, schemas>>
     ELSE LET projects == manifest
              idx == FindIndex(projects, id)
          IN IF idx = 0
             THEN /\ reply' = Reply("DELETE /api/projects/:id", 404, [error |-> "Not found"])
                  /\ UNCHANGED <<manifest, schemas>>
             ELSE /\ UNCHANGED schemas
                  /\ manifest' = SubSeq(projects, 1, idx - 1) \o
                                 SubSeq(projects, idx + 1, Len(projects))
                  /\ reply' = Reply("DELETE /api/projects/:id", 200, [ok |-> TRUE])
  /\ UNCHANGED <<clock, docVars, verVars, bundleVars, relayVars, startVars, endpointVars, histVars, limitVars>>

\* DELETE /api/projects/:id, lines 319-334
DeleteProject(id) ==
  /\ IF ~Hex10(id)
     THEN /\ reply' = Reply("DELETE /api/projects/:id", 400, [error |-> "Invalid project id"])
          /\ UNCHANGED <<manifest, schemas>>
     ELSE LET projects == manifest
              idx == FindIndex(projects, id)
          IN IF idx = 0
             THEN /\ reply' = Reply("DELETE /api/projects/:id", 404, [error |-> "Not found"])
                  /\ UNCHANGED <<manifest, schemas>>
             ELSE /\ schemas' = [schemas EXCEPT ![id] = NoFile]
                  /\ manifest' = SubSeq(projects, 1, idx - 1) \o
                                 SubSeq(projects, idx + 1, Len(projects))
                  /\ reply' = Reply("DELETE /api/projects/:id", 200, [ok |-> TRUE])
  /\ UNCHANGED <<clock, docVars, verVars, bundleVars, relayVars, startVars, endpointVars, histVars, limitVars>>

\* the requests to /api/projects; the other fields of a body whose schema
\* line 268 refuses are never read
ProjectsNext ==
  \/ RelayTick /\ UNCHANGED <<verVars, bundleVars, relayVars, restVars, histVars>>
  \/ \E schema \in SchemaInputs \ {HomeSchema, CartSchema} :
        PostProject(schema, Null, Null, Null)
  \/ \E schema \in {HomeSchema, CartSchema}, name \in Names, prompt \in PromptTexts,
        requestedId \in RequestedIds :
        PostProject(schema, name, prompt, requestedId)
  \/ GetProjects
  \/ \E id \in Ids \cup {"../secret"} : DeleteProject(id)

SpecProjects == Init /\ [][ProjectsNext]_vars

\* ------------------------------------------------------------------------
\* the version resolver, with the memory of its successful resolutions

\* a call left line 104 in this step and stored a version (lines 107-108):
\* pineUIVersionAt now holds the `now` of that call
Remember ==
  resolvedStart' =
    IF /\ BagCardinality(vcalls') < BagCardinality(vcalls)
       /\ vlast'.path = "resolved"
       /\ pineUIVersionAt' > resolvedStart
    THEN pineUIVersionAt'
    ELSE resolvedStart

HistNext ==
  \/ Tick /\ UNCHANGED nonDocVars
  \/ GetPineUIVersionStart /\ UNCHANGED nonVerVars
  \/ \E c \in BagToSet(vcalls), raw \in RegistryBodies :
        VersionFetchEnd(c, raw) /\ Remember /\ UNCHANGED <<relayVars, restVars, limitVars>>
  \/ \E c \in BagToSet(vcalls) : VersionFetchError(c) /\ UNCHANGED nonVerVars
  \/ \E d \in BagToSet(downloads), which \in {"js", "css"}, resp \in Responses :
        BundleFetchEnd(d, which, resp) /\ UNCHANGED nonVerVars
  \/ \E d \in BagToSet(downloads), which \in {"js", "css"} :
        BundleFetchError(d, which) /\ UNCHANGED nonVerVars

SpecHist == Init /\ [][HistNext]_vars

\* ------------------------------------------------------------------------
\* the document cache when the mirror file cannot be written

\* where writeFileSync (line 152) can fail: at the open of the file (EACCES,
\* EROFS), which leaves the file as it was, or at one of the writes that
\* follow the open with O_TRUNC|O_CREAT (ENOSPC, EFBIG), which leaves in
\* the file, created if it was absent, the part of the body written so far
WriteFailures == {"open", "write"}

\* the strings of at most n chunks, and the parts of a body that a failed
\* write can leave behind: its beginnings, the empty one included, short of
\* the whole
RECURSIVE BodiesUpTo(_)
BodiesUpTo(n) ==
  IF n = 0 THEN {""}
  ELSE BodiesUpTo(n - 1) \cup {b \o chunk : b \in BodiesUpTo(n - 1), chunk \in Chunks}
WrittenParts(body) ==
  {part \in BodiesUpTo(Len(body)) :
     /\ Len(part) < Len(body)
     /\ \E rest \in BodiesUpTo(Len(body)) : part \o rest = body}

\* fetchUrl resolves and lines 150-151 store the body, then writeFileSync
\* (line 152) throws, at the open or after it has written `part` of the
\* body; an empty body has nothing to write, so only its open can fail.
\* The catch block follows: line 155 with a truthy body, lines 157-161 with
\* an empty body and a mirror file, the throw of line 163 with an empty body
\* and no file
FetchEndWriteFails(c, at, part) ==
  /\ at = "open" => part = ""
  /\ at = "write" => part \in WrittenParts(c.data)
  /\ LET fresh == c.data
         now   == c.now
     IN IF Truthy(fresh)
        THEN /\ pineUIPrompt' = fresh
             /\ source' = "remote"
             /\ last' = Settled("stale", now, "ok", pineUIPrompt')
        ELSE IF promptFile # NoFile
        THEN /\ pineUIPrompt' = promptFile
             /\ source' = "disk"
             /\ last' = Settled("disk", now, "ok", pineUIPrompt')
        ELSE /\ pineUIPrompt' = fresh
             /\ source' = "remote"
             /\ last' = Settled("fail", now, "ok", Null)
  /\ promptFile' = IF at = "write" THEN part ELSE promptFile
  /\ pineUIPromptAt' = c.now
  /\ lastFetched' = c.data
  /\ okStart' = IF c.now > okStart THEN c.now ELSE okStart
  /\ calls' = Resume(c)
  /\ UNCHANGED <<clock, run>>

MirrorNext ==
  \/ Tick /\ UNCHANGED nonDocVars
  \/ GetPineUIPromptStart /\ UNCHANGED nonDocVars
  \/ \E c \in BagToSet(calls) : FetchData(c) /\ UNCHANGED nonDocVars
  \/ \E c \in BagToSet(calls) : FetchEnd(c) /\ UNCHANGED nonDocVars
  \/ \E c \in BagToSet(calls), at \in WriteFailures, part \in BodiesUpTo(MaxBody) :
        FetchEndWriteFails(c, at, part) /\ UNCHANGED nonDocVars
  \/ \E c \in BagToSet(calls) : FetchError(c) /\ UNCHANGED nonDocVars
  \/ Restart /\ UNCHANGED nonDocVars

SpecMirror == Init /\ [][MirrorNext]_vars

\* ------------------------------------------------------------------------
\* the resolvers started on a directory that holds half a pair

\* what an earlier run left in public/pineui: one file of one version
OldBundle == "old bundle"
LeftBehind(file, v, which) ==
  [u \in Versions |-> IF u = v /\ which = file THEN OldBundle ELSE NoFile]

\* lines 84-87 with such a directory: the process starts with exactly one of
\* the two files of some version on disk
InitHalf ==
  /\ clock = StartTime
  /\ pineUIPrompt = Null
  /\ pineUIPromptAt = 0
  /\ promptFile = NoFile
  /\ calls = EmptyBag
  /\ run = 0
  /\ source = "none"
  /\ lastFetched = Null
  /\ last = NoReturn
  /\ okStart = 0
  /\ pineUIVersion = Null
  /\ pineUIVersionAt = 0
  /\ vcalls = EmptyBag
  /\ vlast = NoVersionReturn
  /\ \E v \in Versions, which \in {"js", "css"} :
       /\ jsFile = LeftBehind("js", v, which)
       /\ cssFile = LeftBehind("css", v, which)
  /\ downloads = EmptyBag
  /\ blast = NoBundleStep
  /\ session = Idle
  /\ res = <<>>
  /\ produced = <<>>
  /\ connected = FALSE
  /\ coldFailed = FALSE
  /\ hits = 0
  /\ started = FALSE
  /\ vreq = NoRequest
  /\ answer = NoAnswer
  /\ manifest = <<>>
  /\ schemas = [id \in Ids |-> NoFile]
  /\ reply = NoReply
  /\ resolvedStart = 0

SpecHalf == InitHalf /\ [][VerNext]_vars

TypeOK ==
  /\ clock \in Nat
  /\ pineUIPromptAt \in Nat
  /\ run \in 0..MaxRestarts
  /\ source \in {"none", "remote", "disk"}
  /\ InFlight <= MaxCalls
  /\ last.path \in {"none", "cache", "fetch", "stale", "disk", "fail"}
  /\ hits \in 0..(max + 1)

\* ------------------------------------------------------------------------
\* Steps of an invocation c suspended at line 149, as seen from outside:
\* its promise was rejected / resolved in this step, or a new invocation
\* went to the network in this step.
Rejected(c) == run' = run /\ calls' = Resume(c) /\ last'.fetch = "error"
Resolved(c) == run' = run /\ calls' = Resume(c) /\ last'.fetch = "ok"
WentToNetwork == BagCardinality(calls') > BagCardinality(calls)

\* C1: when the fetch of a getPineUIPrompt() call fails while pineUIPrompt
\* holds a copy, the call returns that copy, does not throw, and leaves
\* pineUIPrompt and pineUIPromptAt as they were.
C1_StaleCopyServedOnFailure ==
  [][\A c \in BagToSet(calls) :
       (Rejected(c) /\ Truthy(pineUIPrompt)) =>
         /\ last'.path = "stale"
         /\ last'.ret = pineUIPrompt
         /\ pineUIPrompt' = pineUIPrompt
         /\ pineUIPromptAt' = pineUIPromptAt]_vars

\* a call whose fetch failed returned the copy in memory, which is older
\* than the TTL by now
C1_Witness ==
  /\ last.path = "stale"
  /\ Truthy(last.ret)
  /\ last.ret = pineUIPrompt
  /\ clock - pineUIPromptAt >= CACHE_TTL

\* C2 (as claimed): once a call has completed a successful fetch, a call
\* that starts less than CACHE_TTL after that call started returns the copy
\* in memory and does not go to the network.
C2_NoFetchWithinTTL ==
  [][(okStart > 0 /\ clock - okStart < CACHE_TTL) => ~WentToNetwork]_vars

\* C3 (as claimed): at most one fetch of the document is outstanding.
C3_SingleFlight == InFlight <= 1

\* C4: the step that completes a successful fetch leaves pineUIPrompt, the
\* mirror file and the returned value equal to the fetched body, and
\* pineUIPromptAt equal to the `now` the call took at line 139.
C4_SuccessfulFetchStored ==
  [][\A c \in BagToSet(calls) :
       Resolved(c) =>
         /\ pineUIPrompt' = c.data
         /\ promptFile' = c.data
         /\ last'.path = "fetch" /\ last'.ret = c.data
         /\ pineUIPromptAt' = c.now]_vars

\* a fetch replaced an older, different copy in memory and on disk
C4_Witness ==
  /\ last.path = "fetch"
  /\ Truthy(last.ret)
  /\ pineUIPrompt = last.ret /\ promptFile = last.ret
  /\ pineUIPromptAt = last.now
  /\ last.now > StartTime

\* C5: once some fetch has ended in any run, a call that finds no copy in
\* memory and whose fetch fails returns the content of the mirror file,
\* which is the body of the latest fetch that ended; it does not throw.
C5_MirrorSurvivesRestart ==
  [][\A c \in BagToSet(calls) :
       (Rejected(c) /\ ~Truthy(pineUIPrompt) /\ lastFetched # Null) =>
         /\ last'.path = "disk"
         /\ last'.ret = promptFile
         /\ last'.ret = lastFetched]_vars

\* a restarted process with the network down served the mirror
C5_Witness ==
  /\ run > 0
  /\ last.path = "disk"
  /\ Truthy(last.ret)
  /\ last.ret = lastFetched
  /\ source = "disk"

\* C6 (as claimed): a copy loaded from the mirror file is marked old, so
\* the freshness test fails on it and the next call goes to the network.
C6_DiskCopyIsOld == (source = "disk" /\ Truthy(pineUIPrompt)) => ~Fresh(clock)

\* C7 (as claimed): a call throws exactly when its fetch failed, no copy is
\* in memory and the mirror file does not exist; in every other case it
\* returns a document, and a call served from memory at line 144 never
\* throws.
C7_FailsOnlyWithNothing ==
  [][/\ \A c \in BagToSet(calls) :
          (run' = run /\ calls' = Resume(c)) =>
            /\ last'.path = "fail" <=>
                  (last'.fetch = "error" /\ ~Truthy(pineUIPrompt) /\ promptFile = NoFile)
            /\ last'.path # "fail" => last'.ret # Null
     /\ (UNCHANGED calls) => last'.path # "fail" \/ last' = last]_vars

\* C8 (as claimed): within one process, a populated pineUIPrompt is never
\* emptied again.
C8_NeverCleared ==
  [][(Truthy(pineUIPrompt) /\ run' = run) => Truthy(pineUIPrompt')]_vars

\* C9 (as claimed): within one process, a document in memory is not
\* replaced by a fetch that started before the one it came from, and its
\* pineUIPromptAt never decreases.
C9_OnlyNewerReplaces ==
  [][(Truthy(pineUIPrompt) /\ run' = run) =>
       /\ pineUIPromptAt' >= pineUIPromptAt
       /\ \A c \in BagToSet(calls) :
            (Resolved(c) /\ c.now < pineUIPromptAt) => pineUIPrompt' = pineUIPrompt]_vars

\* C10: pineUIPrompt and the mirror file change only in the step in which
\* a fetch settles: to the whole `data` of a response that ended, or (in
\* memory) to the whole mirror file; every value a call returns is the
\* pineUIPrompt of that step.  A response still arriving changes neither.
C10_NoPartialBody ==
  [][/\ (pineUIPrompt' # pineUIPrompt /\ run' = run) =>
          \E c \in BagToSet(calls) :
             \/ Resolved(c) /\ pineUIPrompt' = c.data
             \/ Rejected(c) /\ pineUIPrompt' = promptFile /\ promptFile # NoFile
     /\ promptFile' # promptFile =>
          \E c \in BagToSet(calls) : Resolved(c) /\ promptFile' = c.data
     /\ (last' # last /\ last'.path \notin {"none", "fail"}) =>
          last'.ret = pineUIPrompt']_vars

\* a call was served from memory while a refresh had received part of a
\* different body
C10_Witness ==
  /\ last.path = "cache"
  /\ \E c \in BagToSet(calls) : c.data # "" /\ c.data # pineUIPrompt
  /\ last.ret = pineUIPrompt

\* ------------------------------------------------------------------------
\* the bodies of the answers whose status is not 2xx
ErrorBodies == {r.body : r \in {x \in Responses : x.status \notin 200..299}}

\* C11: a response whose status is not 2xx counts as a failed fetch, so its
\* body is never written as a bundle file: no bundle file on disk ever holds
\* the body of a non-2xx answer.
C11_Non2xxIsFailure ==
  \A v \in Versions : jsFile[v] \notin ErrorBodies /\ cssFile[v] \notin ErrorBodies

\* the step in which the getPineUIVersion() invocation c returns from its
\* catch block, resp. from its try block
VersionFailed(c)   == vcalls' = vcalls (-) SetToBag({c}) /\ vlast'.path = "fallback"
VersionResolved(c) == vcalls' = vcalls (-) SetToBag({c}) /\ vlast'.path = "resolved"

\* C12: getPineUIVersion() never propagates an error.  When its registry
\* fetch fails it returns a value and leaves the timestamp alone: with a
\* version stored, that version is returned and stays stored (a resolved
\* version is never replaced by "latest"); with nothing stored, the
\* sentinel "latest" is returned.
C12_FailureKeepsVersion ==
  [][\A c \in BagToSet(vcalls) :
       VersionFailed(c) =>
         /\ Truthy(vlast'.ret)
         /\ vlast'.ret = pineUIVersion'
         /\ pineUIVersionAt' = pineUIVersionAt
         /\ pineUIVersion' = IF Truthy(pineUIVersion) THEN pineUIVersion ELSE Latest]_vars

\* a failed resolution has just returned the version resolved earlier
C12_Witness ==
  /\ vlast.path = "fallback"
  /\ vlast.ret \in Versions
  /\ pineUIVersion = vlast.ret
  /\ pineUIVersionAt > 0

\* C13: a registry answer that is not JSON, or has no version field, is
\* handled like a failed fetch: the stored version and its timestamp stay
\* as they were (the sentinel "latest" when nothing was stored), no bundle
\* download is started, and the stored value is what is returned; only an
\* answer carrying a version is ever stored.
C13_UnusableAnswerIsFailure ==
  [][\A c \in BagToSet(vcalls) :
       /\ (VersionFailed(c) /\ vlast'.fetch = "ok") =>
            /\ pineUIVersionAt' = pineUIVersionAt
            /\ pineUIVersion' = IF Truthy(pineUIVersion) THEN pineUIVersion ELSE Latest
            /\ vlast'.ret = pineUIVersion'
            /\ UNCHANGED bundleVars
       /\ VersionResolved(c) => pineUIVersion' \in Versions]_vars

\* an unusable answer has just been received while a resolved version was
\* stored, and that version was returned
C13_Witness ==
  /\ vlast.path = "fallback"
  /\ vlast.fetch = "ok"
  /\ vlast.ret \in Versions
  /\ pineUIVersionAt > 0

\* the step in which the downloadPineUIBundle() invocation d is rejected,
\* resp. writes its pair of files
BundleFailed(d)  == downloads' = downloads (-) SetToBag({d}) /\ blast' = BundleStep(d.version, "failed")
BundleWritten(d) == downloads' = downloads (-) SetToBag({d}) /\ blast' = BundleStep(d.version, "written")

\* C14: the bundle download is fire-and-forget.  The step in which
\* getPineUIVersion() resolves a version returns that version while the
\* download it started for missing files is still waiting for both answers;
\* and the step in which a download fails changes neither the stored
\* version, nor its timestamp, nor any getPineUIVersion() in flight or
\* returned.
C14_DownloadFireAndForget ==
  [][/\ \A c \in BagToSet(vcalls) :
          VersionResolved(c) =>
            /\ vlast'.ret = pineUIVersion'
            /\ Missing(pineUIVersion') =>
                 downloads' = downloads (+) SetToBag({Downloading(pineUIVersion', Pending, Pending)})
     /\ \A d \in BagToSet(downloads) : BundleFailed(d) => UNCHANGED verVars]_vars

\* the download started by a resolution has failed, and the version that
\* resolution returned is still the stored one
C14_Witness ==
  /\ blast.what = "failed"
  /\ vlast.path = "resolved"
  /\ vlast.ret = blast.version
  /\ pineUIVersion = blast.version
  /\ pineUIVersionAt > 0

\* C15: downloadPineUIBundle(v) with both files of v on disk is a no-op: the
\* step that calls it issues no GET and writes no file.
C15_CachedBundleIsNoOp ==
  [][\A c \in BagToSet(vcalls) :
       (/\ VersionResolved(c)
        /\ jsFile[pineUIVersion'] # NoFile
        /\ cssFile[pineUIVersion'] # NoFile) =>
          /\ downloads' = downloads
          /\ jsFile' = jsFile
          /\ cssFile' = cssFile
          /\ blast' = BundleStep(pineUIVersion', "cached")]_vars

\* downloadPineUIBundle has just returned at once for a version whose two
\* files are on disk
C15_Witness ==
  /\ blast.what = "cached"
  /\ blast.version \in Versions
  /\ jsFile[blast.version] # NoFile
  /\ cssFile[blast.version] # NoFile

\* at most one downloadPineUIBundle(v) is downloading at any time
SingleDownload(v) ==
  \A d1, d2 \in BagToSet(downloads) :
    (d1.version = v /\ d2.version = v) => (d1 = d2 /\ CopiesIn(d1, downloads) = 1)

\* C16: invocations of downloadPineUIBundle(v) that overlap while the files
\* of v are missing cause one download and one write of the pair: never are
\* two downloads of v in flight, and an invocation that writes the pair
\* finds neither file already written by another.
C16_OneDownloadOneWrite ==
  [][/\ \A v \in Versions : SingleDownload(v)
     /\ \A d \in BagToSet(downloads) :
          BundleWritten(d) => (jsFile[d.version] = NoFile /\ cssFile[d.version] = NoFile)]_vars

\* the invocation d already holds an answer whose status is not 2xx
HoldsErrorAnswer(d) ==
  \E which \in {"js", "css"} : d[which] # Pending /\ d[which].status \notin 200..299

\* C17: when either of the two downloads of downloadPineUIBundle(v) fails
\* (the GET is rejected, or answered with a status that is not 2xx), the
\* invocation writes nothing: a step that settles a GET of an invocation
\* with a failed download leaves every bundle file as it was.
C17_FailedDownloadWritesNothing ==
  [][\A d \in BagToSet(downloads) :
       /\ BundleFailed(d) => (jsFile' = jsFile /\ cssFile' = cssFile)
       /\ \A which \in {"js", "css"}, resp \in Responses :
            (/\ BundleFetchEnd(d, which, resp)
             /\ (resp.status \notin 200..299 \/ HoldsErrorAnswer(d))) =>
               (jsFile' = jsFile /\ cssFile' = cssFile)]_vars

\* a rejected GET leaves every bundle file as it was
RejectedDownloadWritesNothing ==
  [][\A d \in BagToSet(downloads) :
       BundleFailed(d) => (jsFile' = jsFile /\ cssFile' = cssFile)]_vars

\* exactly one file of the pair of v is on disk
HalfPair(v) == (jsFile[v] = NoFile) # (cssFile[v] = NoFile)

\* C18 (as claimed): nobody can observe exactly one of the two files of v
\* written by downloadPineUIBundle(v).  No step leaves a half pair behind; a
\* step that changes a file of v is the step in which an invocation for v
\* writes both files, and it does so only after both downloads succeeded:
\* it holds both answers and both have a 2xx status.
C18_NoHalfWrittenPair ==
  [][\A v \in Versions :
       /\ ~HalfPair(v) => ~HalfPair(v)'
       /\ (jsFile'[v] # jsFile[v] \/ cssFile'[v] # cssFile[v]) =>
            \E d \in BagToSet(downloads) :
              /\ d.version = v
              /\ BundleWritten(d)
              /\ d.js # Pending \/ d.css # Pending
              /\ ~HoldsErrorAnswer(d)
              /\ \E which \in {"js", "css"}, resp \in Responses :
                   /\ resp.status \in 200..299
                   /\ BundleFetchEnd(d, which, resp)
              /\ jsFile'[v] # NoFile /\ cssFile'[v] # NoFile]_vars

\* C19: for every version v, once both files of v exist they are non-empty
\* and their content never changes again.
C19_PairImmutableOnceWritten ==
  [][\A v \in Versions :
       ~Missing(v) =>
         /\ jsFile[v] # "" /\ cssFile[v] # ""
         /\ jsFile'[v] = jsFile[v]
         /\ cssFile'[v] = cssFile[v]]_vars

\* C20: invocations of downloadPineUIBundle for distinct versions never wait
\* on each other and write only their own two paths: whatever else is in
\* flight, each outstanding GET of an invocation can be answered or
\* rejected at once, and a step of an invocation for one version leaves
\* the files of every other version as they were.
C20_VersionsIndependent ==
  /\ [](\A d \in BagToSet(downloads) :
          \A which \in {"js", "css"} :
            d[which] = Pending =>
              /\ \A resp \in Responses : ENABLED BundleFetchEnd(d, which, resp)
              /\ ENABLED BundleFetchError(d, which))
  /\ [][\A d \in BagToSet(downloads) :
          (BundleWritten(d) \/ BundleFailed(d)) =>
            \A v \in Versions \ {d.version} :
              jsFile'[v] = jsFile[v] /\ cssFile'[v] = cssFile[v]]_vars

\* an invocation has just written the pair of its version while one for
\* another version, holding one answer, is still downloading
C20_Witness ==
  /\ blast.what = "written"
  /\ ~Missing(blast.version)
  /\ \E d \in BagToSet(downloads) :
       /\ d.version # blast.version
       /\ d.js # Pending \/ d.css # Pending
       /\ Missing(d.version)

\* ------------------------------------------------------------------------
\* the text fragments among the chunks the provider yielded, in order, and
\* the content events they are to be relayed as
ProducedTexts ==
  LET deltas == SelectSeq(produced, LAMBDA k : k.type = "content_block_delta" /\ k.delta = "text_delta")
  IN [i \in 1..Len(deltas) |-> deltas[i].text]
EventsOf(texts) == [i \in 1..Len(texts) |-> TextEvent(texts[i])]
EmittedTexts ==
  LET events == SelectSeq(res, LAMBDA e : e.kind = "text")
  IN [i \in 1..Len(events) |-> events[i].payload]
RECURSIVE Concat(_)
Concat(texts) == IF texts = <<>> THEN "" ELSE Head(texts) \o Concat(Tail(texts))
EndedWith(kind) == session.st = "closed" /\ res # <<>> /\ res[Len(res)].kind = kind

\* C21: when the provider yields N text fragments and then ends normally,
\* the session has written exactly N content events, one per fragment, in
\* the provider's order, followed by exactly one [DONE] marker; the emitted
\* fragments concatenate to the provider's output.
C21_FragmentsRelayedInOrder ==
  EndedWith("done") =>
    /\ res = EventsOf(ProducedTexts) \o <<DoneEvent>>
    /\ Concat(EmittedTexts) = Concat(ProducedTexts)

\* a stream of two different fragments has ended normally
C21_Witness ==
  /\ EndedWith("done")
  /\ Len(ProducedTexts) = 2
  /\ ProducedTexts[1] # ProducedTexts[2]

\* C22: when the provider fails after k text fragments, the session has
\* written exactly those k content events in order, then exactly one error
\* event and no [DONE] marker, and has ended the response; the step that
\* reports the failure opens no new provider stream.
C22_ProviderErrorInBand ==
  /\ [](\A i \in 1..Len(res) :
          (session.st = "closed" /\ res[i] = ErrorEvent("provider error")) =>
            /\ i = Len(res)
            /\ res = EventsOf(ProducedTexts) \o <<ErrorEvent("provider error")>>
            /\ ~connected)
  /\ [][(session.st = "streaming" /\ session'.st = "closed") =>
          (produced' = produced /\ res'[Len(res')].kind \in {"done", "error"})]_vars

\* the provider has failed after two fragments
C22_Witness ==
  /\ EndedWith("error")
  /\ res[Len(res)].payload = "provider error"
  /\ Len(ProducedTexts) = 2
  /\ Len(res) = 3

\* an event that ends the response: the end marker, an error event, or the
\* JSON error answer of line 186
Terminal(e) == e.kind \in {"done", "error", "json"}

\* the handler of the session has ended: it ended the response, or it threw
\* at line 190 and the process exited
HandlerEnded == session.st \in {"closed", "exited"}

\* C23 (as claimed): a session that passed the validation of the prompt
\* writes exactly one terminal event, the [DONE] marker or an error payload,
\* never neither, and nothing after it: while the session runs no terminal
\* event has been written, and once its handler has ended the last thing
\* written, and only that, is terminal.
C23_ExactlyOneTerminal ==
  /\ session.st \in {"context", "streaming"} =>
       \A i \in 1..Len(res) : ~Terminal(res[i])
  /\ HandlerEnded =>
       /\ res # <<>>
       /\ Terminal(res[Len(res)])
       /\ \A i \in 1..(Len(res) - 1) : ~Terminal(res[i])

\* C24: a generation request whose prompt is missing, empty or blank is
\* answered with a client error in the step in which it arrives, status 400
\* from the handler (429 when the limiter has already stopped it): no
\* getPineUIPrompt() call, no provider call, no stream event, and the
\* document cache is left as it was.
C24_EmptyPromptRejected ==
  [][(session.st \in {"idle", "closed"} /\ produced' = <<>>) =>
       \A prompt \in {Null, "", "  "}, key \in BOOLEAN, history \in Histories :
         GenerateRequest(prompt, key, history) =>
           /\ res' = <<IF Limited THEN JsonAnswer(429, TooManyRequests)
                                   ELSE JsonAnswer(400, "Prompt is required")>>
           /\ session' = Closed
           /\ UNCHANGED <<clock, docVars>>]_vars

\* a request has just been rejected for its prompt
C24_Witness ==
  /\ session.st = "closed"
  /\ res = <<JsonAnswer(400, "Prompt is required")>>

\* C25: once the client has disconnected mid-stream the relay stops: no
\* further provider chunk is consumed and nothing more is written for that
\* session, and no error event is produced for the disconnect.
C25_DisconnectStopsRelay ==
  [][(session.st = "streaming" /\ ~connected) =>
       (produced' = produced /\ res' = res)]_vars

\* the session enters the for-await loop in this step: the provider stream
\* is opened (line 231)
OpensProvider == session.st # "streaming" /\ session'.st = "streaming"

\* C26: a session moves only along Idle -> RequestValidated ->
\* ContextAttached -> Streaming -> {Completed, Failed}.  The provider stream
\* is opened only by a session with a valid prompt, in the step in which its
\* getPineUIPrompt() returns a document (from the cache, a fetch, the stale
\* copy or the disk copy); when getPineUIPrompt() throws, no provider
\* stream is opened and the session ends with a single error event.  A
\* session whose history cannot be composed into the message list (line
\* 218) ends the same way before any provider stream is opened.  A session
\* whose handler throws at line 190 goes no further than RequestValidated:
\* it calls nothing, opens no provider stream and writes nothing, and
\* nothing moves after the exit of the process.
C26_SessionStateMachine ==
  [][/\ session.st \in {"idle", "closed"} =>
          session'.st \in {"idle", "closed", "exited", "context", "streaming"}
     /\ session.st = "exited" => session' = session
     /\ (session'.st = "exited" /\ session' # session) =>
          (res' = <<>> /\ produced' = <<>> /\ calls' = EmptyBag /\ last' = NoReturn)
     /\ session.st = "context" => session'.st \in {"context", "streaming", "closed"}
     /\ session.st = "streaming" => session'.st \in {"streaming", "closed"}
     /\ OpensProvider =>
          /\ res' = <<>> /\ produced' = <<>>
          /\ session.st = "context" =>
               /\ \E c \in BagToSet(calls) : SessionCall(c) /\ calls' = Resume(c)
               /\ ~MapThrows(session.history)
          /\ last'.path \in {"cache", "fetch", "stale", "disk"}
          /\ last'.ret # Null
     /\ (session.st = "context" /\ session'.st = "closed") =>
          /\ \/ /\ last'.path = "fail"
                /\ res' = <<ErrorEvent("fetch failed")>>
             \/ /\ MapThrows(session.history)
                /\ last'.path \in {"fetch", "stale", "disk"}
                /\ res' = <<ErrorEvent(RoleError)>>
          /\ produced' = <<>>
     /\ \A c \in BagToSet(calls) :
          (SessionCall(c) /\ Waiting(c.now) = 1 /\ Tier = "fail" /\ FetchError(c)) =>
            session'.st = "closed"]_vars

\* a session whose fetch failed streams with the stale copy
C26_Witness ==
  /\ session.st = "streaming"
  /\ last.path = "stale"
  /\ produced # <<>>

\* C27: a cold start without network is fatal only for the request that
\* hits it.  The step in which a session fails because no document is
\* available answers that session with an error event and leaves the
\* document cache as it was; the handler then accepts the next request; and
\* a session whose fetch ends, after such a failure, enters the relay loop.
C27_ColdStartFailureIsLocal ==
  /\ [][\A c \in BagToSet(calls) :
          /\ (SessionCall(c) /\ Waiting(c.now) = 1 /\ Tier = "fail" /\ FetchError(c)) =>
               /\ session' = Closed
               /\ res' = <<ErrorEvent("fetch failed")>>
               /\ pineUIPrompt' = pineUIPrompt
               /\ pineUIPromptAt' = pineUIPromptAt
               /\ promptFile' = promptFile
          /\ (coldFailed /\ SessionCall(c) /\ Waiting(c.now) = 1 /\ FetchEnd(c)) =>
               /\ pineUIPrompt' = c.data
               /\ ~MapThrows(session.history) => session' = Streaming]_vars
  /\ []((coldFailed /\ session.st = "closed" /\ InFlight = 0) =>
          ENABLED GenerateRequest("login form", TRUE, "list"))

\* after a session failed for want of a document, a later session fetched
\* it and relayed a stream to its normal end
C27_Witness ==
  /\ coldFailed
  /\ EndedWith("done")
  /\ Len(ProducedTexts) >= 1
  /\ source = "remote"
  /\ Truthy(pineUIPrompt)

\* the state the startup sequence is to reach: the document in memory and in
\* data/PROMPT.md, a version that is not the sentinel, and both of its files
StartupDone ==
  /\ Truthy(pineUIPrompt)
  /\ promptFile = pineUIPrompt
  /\ pineUIVersion \in Versions
  /\ ~Missing(pineUIVersion)

\* C28: with the document source, the registry and unpkg reachable, the
\* startup sequence eventually has the document in memory and mirrored on
\* disk, a real version (not "latest") resolved, and both bundle files of
\* that version on disk.
C28_StartupCompletes == <>StartupDone

\* the startup sequence has ended that way: the callback ran, its fetch of
\* the document was stored and the bundle of the resolved version written
C28_Witness ==
  /\ started
  /\ StartupDone
  /\ last.path = "fetch"
  /\ vlast.path = "resolved"
  /\ blast = BundleStep(pineUIVersion, "written")
  /\ InFlight = 0 /\ vcalls = EmptyBag /\ downloads = EmptyBag

\* the body names both local paths of its version
BothLocal(body) ==
  body.js = LocalJs(body.version) /\ body.css = LocalCss(body.version)
\* the body names both unpkg URLs of its version
BothRemote(body) ==
  body.js = RemoteJs(body.version) /\ body.css = RemoteCss(body.version)
\* the step sends an answer of the version endpoint
AnswerSent ==
  \/ vreq.st = "asking" /\ vreq'.st = "idle"
  \/ vreq.st = "idle" /\ VersionFresh(clock) /\ VersionRequest

\* C29: GET /api/pineui-version answers with the version getPineUIVersion()
\* returned and with both local /pineui/ paths of that version when both
\* files exist, both unpkg URLs of that version otherwise; an answer never
\* mixes a local and a remote location and never names a local path whose
\* file is missing.
C29_VersionEndpointAnswer ==
  /\ [](answer # NoAnswer =>
          /\ answer.status = 200
          /\ BothLocal(answer.body) \/ BothRemote(answer.body)
          /\ BothLocal(answer.body) =>
               /\ answer.body.version \in Versions
               /\ jsFile[answer.body.version] # NoFile
               /\ cssFile[answer.body.version] # NoFile)
  /\ [][AnswerSent =>
          /\ answer'.body.version = vlast'.ret
          /\ answer'.body.version = pineUIVersion'
          /\ IF /\ vlast'.ret \in Versions
                /\ jsFile'[vlast'.ret] # NoFile
                /\ cssFile'[vlast'.ret] # NoFile
             THEN BothLocal(answer'.body)
             ELSE BothRemote(answer'.body)]_vars

\* the endpoint has answered with the local paths of a resolved version
\* whose bundle was downloaded, after a request that waited for the registry
C29_Witness ==
  /\ answer # NoAnswer
  /\ BothLocal(answer.body)
  /\ answer.body.version = "1.1.0"
  /\ vlast.path = "fallback"
  /\ vreq.st = "idle"

\* the step is a POST /api/projects that saved a project
ProjectSaved ==
  /\ clock' = clock
  /\ reply'.route = "POST /api/projects"
  /\ reply'.status = 200

DeleteIds == Ids \cup {"../secret"}
\* the manifest has an entry for id
Known(id) == \E i \in 1..Len(manifest) : manifest[i].id = id
\* the manifest without its entries for id
Without(id) == SelectSeq(manifest, LAMBDA p : p.id # id)

C32_FreshVersionFromCache ==
  [][(resolvedStart > 0 /\ clock - resolvedStart < CACHE_TTL /\ GetPineUIVersionStart) =>
       /\ vcalls' = vcalls
       /\ downloads' = downloads
       /\ vlast'.path = "cache"
       /\ vlast'.ret \in Versions]_vars

\* a getPineUIVersion() call left its await in this step
VersionSettles == BagCardinality(vcalls') < BagCardinality(vcalls)
\* downloadPineUIBundle(version) was called in this step: it either found
\* the pair (line 123) or issued the two requests (lines 128-131)
Invoked(version) ==
  \/ downloads' = downloads (+) SetToBag({Downloading(version, Pending, Pending)})
  \/ downloads' = downloads /\ blast' = BundleStep(version, "cached") /\ ~Missing(version)
\* no call of downloadPineUIBundle in this step
NotInvoked == downloads' = downloads /\ blast' = blast

\* C33: a resolution that stores a version other than the one stored before
\* calls downloadPineUIBundle with exactly the version it stored, and a
\* resolution that fails (request rejected, answer without a version) calls
\* it not at all.
C33_NewVersionFetchesItsBundle ==
  [][VersionSettles =>
       /\ (vlast'.path = "resolved" /\ pineUIVersion' # pineUIVersion) =>
             /\ vlast'.ret = pineUIVersion'
             /\ Invoked(pineUIVersion')
       /\ vlast'.path = "fallback" => NotInvoked]_vars

\* version 1.1.0 has replaced 1.0.0, whose bundle is on disk, and the
\* download of the bundle of 1.1.0 is under way
C33_Witness ==
  /\ vlast = VSettled("resolved", "ok", "1.1.0")
  /\ pineUIVersion = "1.1.0"
  /\ ~Missing("1.0.0")
  /\ Missing("1.1.0")
  /\ \E d \in BagToSet(downloads) : d.version = "1.1.0"

\* C34: the sentinel "latest" never counts as a fresh cached value: while it
\* is the stored version no time of resolution is stored with it, every
\* getPineUIVersion() call goes to the registry, and the first answer that
\* carries a version replaces the sentinel with that version.
C34_SentinelNeverFresh ==
  /\ [](pineUIVersion = Latest => (pineUIVersionAt = 0 /\ ~VersionFresh(clock)))
  /\ [][(pineUIVersion = Latest /\ GetPineUIVersionStart) =>
          /\ vcalls' = vcalls (+) SetToBag({[now |-> clock]})
          /\ vlast' = vlast]_vars
  /\ [][(pineUIVersion = Latest /\ VersionSettles) =>
          \A c \in BagToSet(vcalls), raw \in RegistryBodies :
             (VersionFetchEnd(c, raw) /\ ParseVersion(raw) \in Versions) =>
                /\ pineUIVersion' = ParseVersion(raw)
                /\ pineUIVersionAt' = c.now]_vars

\* the sentinel is stored after a failed resolution, and a call that began
\* later is waiting for the registry
C34_Witness ==
  /\ pineUIVersion = Latest
  /\ vlast.path = "fallback"
  /\ vlast.ret = Latest
  /\ \E c \in BagToSet(vcalls) : c.now > StartTime

\* C35: between the steps of the calls (the success step, lines 150-152, is
\* one step), a non-empty document in memory is the content of the mirror
\* file, whatever fetches ended, fetches failed, mirror loads and restarts
\* came before.
C35_MemoryEqualsMirror ==
  Truthy(pineUIPrompt) => (promptFile # NoFile /\ promptFile = pineUIPrompt)

\* a restarted process loaded the mirror, and a later fetch that failed kept
\* that copy, older than the TTL by now
C35_Witness ==
  /\ run > 0
  /\ source = "disk"
  /\ last.path = "stale"
  /\ Truthy(pineUIPrompt)
  /\ promptFile = pineUIPrompt

\* C36 (as claimed): when the fetch succeeds and the write of the mirror
\* file fails, the call does not throw and returns the fetched body, the
\* copy in memory and its time are those of this fetch, and the mirror file
\* keeps the content it had.
C36_WriteFailureIsHarmless ==
  [][\A c \in BagToSet(calls), at \in WriteFailures, part \in BodiesUpTo(MaxBody) :
       FetchEndWriteFails(c, at, part) =>
         /\ last'.path # "fail"
         /\ last'.ret = c.data
         /\ pineUIPrompt' = c.data
         /\ pineUIPromptAt' = c.now
         /\ promptFile' = promptFile]_vars

\* a getPineUIPrompt() call read the mirror file in this step (lines 157-159)
MirrorRead ==
  /\ BagCardinality(calls') < BagCardinality(calls)
  /\ last'.path = "disk"

\* C37 (as claimed): the mirror file is read only by a call whose fetch
\* failed while no copy was in memory; when a non-empty copy is in memory no
\* step reads the mirror or replaces that copy by the file.
C37_MirrorReadOnlyWithoutCopy ==
  [][MirrorRead =>
       /\ last'.fetch = "error"
       /\ ~Truthy(pineUIPrompt)]_vars

\* C38 (as claimed): downloadPineUIBundle(v) called while exactly one file of
\* v is on disk requests both files; when the download succeeds both files
\* are on disk afterwards; when it fails (a GET is rejected, or answered
\* with a status that is not 2xx) the files on disk, the one that was there
\* included, are left as they were.
C38_HalfPairCompletedOrKept ==
  [][/\ (VersionSettles /\ vlast'.path = "resolved" /\ HalfPair(pineUIVersion')) =>
          downloads' = downloads (+) SetToBag({Downloading(pineUIVersion', Pending, Pending)})
     /\ \A d \in BagToSet(downloads) :
          /\ BundleWritten(d) =>
               (jsFile'[d.version] # NoFile /\ cssFile'[d.version] # NoFile)
          /\ BundleFailed(d) => (jsFile' = jsFile /\ cssFile' = cssFile)
          /\ \A which \in {"js", "css"}, resp \in Responses :
               (/\ BundleFetchEnd(d, which, resp)
                /\ (resp.status \notin 200..299 \/ HoldsErrorAnswer(d))) =>
                  (jsFile' = jsFile /\ cssFile' = cssFile)]_vars

\* ------------------------------------------------------------------------
\* the provider yielded one more chunk
Yielded == Len(produced') = Len(produced) + 1
IsTextDelta(chunk) == chunk.type = "content_block_delta" /\ chunk.delta = "text_delta"

\* C39: only text fragments produce outbound content events: at every
\* moment the content events written are, in number and order, the
\* text-delta chunks the provider has yielded, and a chunk of any other
\* type writes nothing to the response.
C39_OnlyTextDeltasEmit ==
  /\ [](SelectSeq(res, LAMBDA e : e.kind = "text") = EventsOf(ProducedTexts))
  /\ [][Yielded =>
          LET chunk == produced'[Len(produced')]
          IN IF IsTextDelta(chunk)
             THEN res' = Append(res, TextEvent(chunk.text))
             ELSE res' = res]_vars

\* a stream mixed a text delta with a delta of another type and wrote the
\* one content event
C39_Witness ==
  /\ \E i \in 1..Len(produced) : IsTextDelta(produced[i])
  /\ \E i \in 1..Len(produced) :
       produced[i].type = "content_block_delta" /\ produced[i].delta # "text_delta"
  /\ Len(SelectSeq(res, LAMBDA e : e.kind = "text")) = 1

====
